---- MODULE Spec2Model ----
(***************************************************************************)
(* Request binding, validation and handlers of the FastAPI tutorial        *)
(* application (src/app/main.py).                                          *)
(*                                                                         *)
(* A request is a Request Context whose parts are already separated: path  *)
(* parameters, query string, headers, cookies, form fields / file parts    *)
(* and a JSON body.  Binding follows the declarations of the handlers'     *)
(* signatures and of the pydantic models; the handlers are translated      *)
(* statement by statement.  Strings are sequences of one-character         *)
(* strings, floats are modelled by integers.                               *)
(***************************************************************************)
EXTENDS Integers, Sequences, FiniteSets, TLC

VARIABLES stage, request, params, errors, response, invoked

vars == <<stage, request, params, errors, response, invoked>>

(***************************************************************************)
(* Values: raw request values and coerced values carry a type tag.         *)
(***************************************************************************)
Absent == [t |-> "absent"]
Null == [t |-> "null"]
Str(s) == [t |-> "str", s |-> s]
Num(n) == [t |-> "num", n |-> n]
Bool(b) == [t |-> "bool", b |-> b]
Lst(l) == [t |-> "list", l |-> l]
Obj(f) == [t |-> "obj", o |-> f]
FilePart(name, content) == [t |-> "file", filename |-> name, content |-> content]
Bytes(content) == [t |-> "bytes", c |-> content]

\* A mapping holding the pairs <<key, value>> of ps whose value is present.
MkMap(ps) ==
    LET present == {i \in DOMAIN ps : ps[i][2].t # "absent"}
    IN  [k \in {ps[i][1] : i \in present} |->
            ps[CHOOSE i \in present : ps[i][1] = k][2]]

EmptyMap == MkMap(<<>>)

Get(m, k) == IF k \in DOMAIN m THEN m[k] ELSE Absent

Rep(c, n) == [i \in 1..n |-> c]

(***************************************************************************)
(* Coercions of the validation layer.                                      *)
(***************************************************************************)
Digits == {"0", "1", "2", "3", "4", "5", "6", "7", "8", "9"}

DigitVal(c) ==
    CASE c = "0" -> 0 [] c = "1" -> 1 [] c = "2" -> 2 [] c = "3" -> 3
      [] c = "4" -> 4 [] c = "5" -> 5 [] c = "6" -> 6 [] c = "7" -> 7
      [] c = "8" -> 8 [] c = "9" -> 9

RECURSIVE DigitsVal(_)
DigitsVal(s) ==
    IF s = <<>> THEN 0
    ELSE 10 * DigitsVal(SubSeq(s, 1, Len(s) - 1)) + DigitVal(s[Len(s)])

\* A decimal numeral with an optional sign, as int() reads it.
StrToInt(s) ==
    LET signed == Len(s) > 0 /\ s[1] \in {"-", "+"}
        body == IF signed THEN Tail(s) ELSE s
    IN  IF body # <<>> /\ \A i \in DOMAIN body : body[i] \in Digits
        THEN [ok |-> TRUE,
              v |-> IF signed /\ s[1] = "-" THEN 0 - DigitsVal(body)
                    ELSE DigitsVal(body)]
        ELSE [ok |-> FALSE, v |-> 0]

Lower(c) ==
    CASE c = "T" -> "t" [] c = "R" -> "r" [] c = "U" -> "u" [] c = "E" -> "e"
      [] c = "F" -> "f" [] c = "A" -> "a" [] c = "L" -> "l" [] c = "S" -> "s"
      [] c = "Y" -> "y" [] c = "N" -> "n" [] c = "O" -> "o"
      [] OTHER -> c

LowerStr(s) == [i \in DOMAIN s |-> Lower(s[i])]

BoolTrue == {<<"1">>, <<"t">>, <<"y">>, <<"o", "n">>, <<"y", "e", "s">>,
             <<"t", "r", "u", "e">>}
BoolFalse == {<<"0">>, <<"f">>, <<"n">>, <<"n", "o">>, <<"o", "f", "f">>,
              <<"f", "a", "l", "s", "e">>}

StrToBool(s) ==
    LET l == LowerStr(s)
    IN  IF l \in BoolTrue THEN [ok |-> TRUE, v |-> TRUE]
        ELSE IF l \in BoolFalse THEN [ok |-> TRUE, v |-> FALSE]
        ELSE [ok |-> FALSE, v |-> FALSE]

(***************************************************************************)
(* String literals of the source, as character sequences.                  *)
(***************************************************************************)
S_alexnet == <<"a", "l", "e", "x", "n", "e", "t">>
S_resnet == <<"r", "e", "s", "n", "e", "t">>
S_lenet == <<"l", "e", "n", "e", "t">>
S_created_at == <<"c", "r", "e", "a", "t", "e", "d", "_", "a", "t">>
S_updated_at == <<"u", "p", "d", "a", "t", "e", "d", "_", "a", "t">>
S_fixedquery == <<"f", "i", "x", "e", "d", "q", "u", "e", "r", "y">>

\* class ModelName(str, Enum)
ModelName == {S_alexnet, S_resnet, S_lenet}

\* Literal["created_at", "updated_at"]
OrderByLiteral == {S_created_at, S_updated_at}

(***************************************************************************)
(* Numbers written in the declarations.                                    *)
(***************************************************************************)
DescriptionMaxLength == 300
LimitDefault == 100
LimitGt == 0
LimitLe == 100
OffsetDefault == 0
OffsetGe == 0
SkipDefault == 0
ItemsQMaxLength == 50
RegexQMinLength == 3
RegexQMaxLength == 50
UserIdGe == 0
UserIdLe == 1000
StatusCodeCreated == 201

(***************************************************************************)
(* Field declarations.  cons lists the constraints in the order the        *)
(* validator applies them; allowed is the closed set of an enumeration.    *)
(***************************************************************************)
FieldDecl(name, alias, type, nullable, required, default, cons, allowed) ==
    [name |-> name, alias |-> alias, type |-> type, nullable |-> nullable,
     required |-> required, default |-> default, cons |-> cons,
     allowed |-> allowed]

Required(name, type) == FieldDecl(name, name, type, FALSE, TRUE, Null, <<>>, {})
Optional(name, type) == FieldDecl(name, name, type, TRUE, FALSE, Null, <<>>, {})
Defaulted(name, type, default, cons) ==
    FieldDecl(name, name, type, FALSE, FALSE, default, cons, {})

\* class Item(BaseModel)
ItemFields ==
    << Required("name", "str"),
       FieldDecl("description", "description", "str", TRUE, FALSE, Null,
                 << <<"max_length", DescriptionMaxLength>> >>, {}),
       Required("price", "float"),
       Optional("tax", "float") >>

\* Variant: limit declared ge=0 in place of gt=0.
FilterParamsFields_ge ==
    << Defaulted("limit", "int", Num(LimitDefault),
                 << <<"ge", LimitGt>>, <<"le", LimitLe>> >>),
       Defaulted("offset", "int", Num(OffsetDefault), << <<"ge", OffsetGe>> >>),
       FieldDecl("order_by", "order_by", "literal", FALSE, FALSE,
                 Str(S_created_at), <<>>, OrderByLiteral),
       Defaulted("tags", "list_str", Lst(<<>>), <<>>) >>

\* class FilterParams(BaseModel)
FilterParamsFields ==
    << Defaulted("limit", "int", Num(LimitDefault),
                 << <<"gt", LimitGt>>, <<"le", LimitLe>> >>),
       Defaulted("offset", "int", Num(OffsetDefault), << <<"ge", OffsetGe>> >>),
       FieldDecl("order_by", "order_by", "literal", FALSE, FALSE,
                 Str(S_created_at), <<>>, OrderByLiteral),
       Defaulted("tags", "list_str", Lst(<<>>), <<>>) >>

FilterParamsForbidExtra == TRUE

\* class Cookies(BaseModel)
CookiesFields ==
    << Required("session_id", "str"),
       Optional("fatebook_tracker", "str"),
       Optional("googall_tracker", "str") >>

\* class CommonHeaders(BaseModel); a header is looked up under the field's
\* name with underscores turned into hyphens.
CommonHeadersFields ==
    << Required("host", "str"),
       FieldDecl("save_data", "save-data", "bool", FALSE, TRUE, Null, <<>>, {}),
       FieldDecl("if_modified_since", "if-modified-since", "str", TRUE, FALSE,
                 Null, <<>>, {}),
       Optional("traceparent", "str"),
       FieldDecl("x_tag", "x-tag", "list_str", FALSE, FALSE, Lst(<<>>), <<>>, {}) >>

\* Variant: FormData without its model_config line.
FormDataAllowExtra == FALSE

\* class FormData(BaseModel)
FormDataFields == << Required("username", "str"), Required("password", "str") >>

FormDataForbidExtra == TRUE

(***************************************************************************)
(* Parameter declarations of the handlers' signatures.                     *)
(***************************************************************************)
Scalar(in, f) == [kind |-> "scalar", in |-> in, name |-> f.name, field |-> f]

Model(in, name, fields, forbid, embed, required) ==
    [kind |-> "model", in |-> in, name |-> name, fields |-> fields,
     forbid |-> forbid, embed |-> embed, required |-> required]

read_root_sig == <<>>

read_item_sig ==
    << Scalar("path", Required("item_id", "int")),
       Scalar("query", Optional("q", "str")) >>

get_model_sig ==
    << Scalar("path", FieldDecl("model_name", "model_name", "enum", FALSE, TRUE,
                                Null, <<>>, ModelName)) >>

read_user_item_sig ==
    << Scalar("path", Required("item_id", "str")),
       Scalar("query", Required("needy", "str")),
       Scalar("query", Defaulted("skip", "int", Num(SkipDefault), <<>>)),
       Scalar("query", Optional("limit", "int")) >>

create_item_sig == << Model("body", "item", ItemFields, FALSE, FALSE, TRUE) >>

update_item_sig ==
    << Scalar("path", Required("item_id", "int")),
       Model("body", "item", ItemFields, FALSE, FALSE, TRUE) >>

read_items_sig ==
    << Scalar("query", FieldDecl("q", "q", "str", TRUE, FALSE, Null,
                                 << <<"max_length", ItemsQMaxLength>> >>, {})) >>

read_regex_items_sig ==
    << Scalar("query", FieldDecl("q", "q", "str", TRUE, FALSE, Null,
                                 << <<"min_length", RegexQMinLength>>,
                                    <<"max_length", RegexQMaxLength>>,
                                    <<"pattern", S_fixedquery>> >>, {})) >>

read_query_items_sig ==
    << Model("query", "filter_query", FilterParamsFields,
             FilterParamsForbidExtra, FALSE, TRUE) >>

\* item: Annotated[Item | None, Body(embed=True)] = None
user_data_sig ==
    << Scalar("path", FieldDecl("user_id", "user_id", "int", FALSE, TRUE, Null,
                                << <<"ge", UserIdGe>>, <<"le", UserIdLe>> >>, {})),
       Scalar("query", Optional("q", "str")),
       Model("body", "item", ItemFields, FALSE, TRUE, FALSE) >>

read_cookie_items_sig ==
    << Model("cookie", "cookies", CookiesFields, FALSE, FALSE, TRUE) >>

read_header_items_sig ==
    << Model("header", "user_agent", CommonHeadersFields, FALSE, FALSE, TRUE) >>

statusCode_sig == << Scalar("query", Required("name", "str")) >>

login_sig ==
    << Model("form", "data", FormDataFields, FormDataForbidExtra, FALSE, TRUE) >>

create_file_sig == << Scalar("form", Required("file", "bytes")) >>

create_upload_file_sig == << Scalar("form", Required("file", "UploadFile")) >>

main_sig == <<>>

\* The routes registered on app, by handler name.
Params(ep) ==
    CASE ep = "read_root" -> read_root_sig
      [] ep = "read_item" -> read_item_sig
      [] ep = "get_model" -> get_model_sig
      [] ep = "read_user_item" -> read_user_item_sig
      [] ep = "create_item" -> create_item_sig
      [] ep = "update_item" -> update_item_sig
      [] ep = "read_items" -> read_items_sig
      [] ep = "read_regex_items" -> read_regex_items_sig
      [] ep = "read_query_items" -> read_query_items_sig
      [] ep = "user_data" -> user_data_sig
      [] ep = "read_cookie_items" -> read_cookie_items_sig
      [] ep = "read_header_items" -> read_header_items_sig
      [] ep = "statusCode" -> statusCode_sig
      [] ep = "login" -> login_sig
      [] ep = "create_file" -> create_file_sig
      [] ep = "create_upload_file" -> create_upload_file_sig
      [] ep = "main" -> main_sig

Endpoints ==
    {"read_root", "read_item", "get_model", "read_user_item", "create_item",
     "update_item", "read_items", "read_regex_items", "read_query_items",
     "user_data", "read_cookie_items", "read_header_items", "statusCode",
     "login", "create_file", "create_upload_file", "main"}

\* Variant: the decorator without status_code=201.
StatusCode_default(ep) == 200

\* @app.post("/status-code/", status_code=201); every other route keeps the
\* default.
StatusCode(ep) == IF ep = "statusCode" THEN StatusCodeCreated ELSE 200

(***************************************************************************)
(* Validation of one field: required/default resolution, type coercion,    *)
(* then the constraints in order; the first failure is the field's error.  *)
(***************************************************************************)
Ok(v) == [ok |-> TRUE, value |-> v, kind |-> "none"]
Err(kind) == [ok |-> FALSE, value |-> Null, kind |-> kind]

Coerce(f, raw) ==
    CASE f.type = "int" ->
            IF raw.t = "num" THEN Ok(Num(raw.n))
            ELSE IF raw.t = "str" /\ StrToInt(raw.s).ok
                 THEN Ok(Num(StrToInt(raw.s).v))
            ELSE Err("int_parsing")
      [] f.type = "float" ->
            IF raw.t = "num" THEN Ok(Num(raw.n))
            ELSE IF raw.t = "str" /\ StrToInt(raw.s).ok
                 THEN Ok(Num(StrToInt(raw.s).v))
            ELSE Err("float_parsing")
      [] f.type = "str" ->
            IF raw.t = "str" THEN Ok(Str(raw.s)) ELSE Err("string_type")
      [] f.type = "bool" ->
            IF raw.t = "bool" THEN Ok(Bool(raw.b))
            ELSE IF raw.t = "str" /\ StrToBool(raw.s).ok
                 THEN Ok(Bool(StrToBool(raw.s).v))
            ELSE Err("bool_parsing")
      [] f.type = "enum" ->
            IF raw.t = "str" /\ raw.s \in f.allowed THEN Ok(Str(raw.s))
            ELSE Err("enum")
      [] f.type = "literal" ->
            IF raw.t = "str" /\ raw.s \in f.allowed THEN Ok(Str(raw.s))
            ELSE Err("literal_error")
      [] f.type = "list_str" ->
            IF raw.t = "list" THEN Ok(Lst(raw.l)) ELSE Err("list_type")
      [] f.type = "bytes" ->
            IF raw.t = "file" THEN Ok(Bytes(raw.content))
            ELSE IF raw.t = "str" THEN Ok(Bytes(raw.s))
            ELSE Err("bytes_type")
      [] f.type = "UploadFile" ->
            IF raw.t = "file" THEN Ok(raw) ELSE Err("upload_type")

\* pattern is an anchored literal (^fixedquery$): the whole string is it.
Violated(c, value) ==
    CASE c[1] = "gt" -> ~(value.n > c[2])
      [] c[1] = "ge" -> ~(value.n >= c[2])
      [] c[1] = "le" -> ~(value.n <= c[2])
      [] c[1] = "min_length" -> Len(value.s) < c[2]
      [] c[1] = "max_length" -> Len(value.s) > c[2]
      [] c[1] = "pattern" -> value.s # c[2]

ErrorKind(cname) ==
    CASE cname = "gt" -> "greater_than"
      [] cname = "ge" -> "greater_than_equal"
      [] cname = "le" -> "less_than_equal"
      [] cname = "min_length" -> "string_too_short"
      [] cname = "max_length" -> "string_too_long"
      [] cname = "pattern" -> "string_pattern_mismatch"

CheckConstraints(f, value) ==
    LET bad == {i \in DOMAIN f.cons : Violated(f.cons[i], value)}
    IN  IF bad = {} THEN Ok(value)
        ELSE Err(ErrorKind(f.cons[CHOOSE i \in bad : \A j \in bad : i <= j][1]))

\* Variant: a required field that is not sent silently takes its default.
ValidateField_lenient(f, raw) ==
    IF raw.t = "absent"
    THEN Ok(f.default)
    ELSE IF raw.t = "null"
    THEN IF f.nullable THEN Ok(Null) ELSE Err(Coerce(f, raw).kind)
    ELSE IF Coerce(f, raw).ok
    THEN CheckConstraints(f, Coerce(f, raw).value)
    ELSE Coerce(f, raw)

ValidateField(f, raw) ==
    IF raw.t = "absent"
    THEN IF f.required THEN Err("missing") ELSE Ok(f.default)
    ELSE IF raw.t = "null"
    THEN IF f.nullable THEN Ok(Null) ELSE Err(Coerce(f, raw).kind)
    ELSE IF Coerce(f, raw).ok
    THEN CheckConstraints(f, Coerce(f, raw).value)
    ELSE Coerce(f, raw)

\* The value of field f in the mapping src of location in, looked up under
\* the field's alias.
Extract(in, src, f) == Get(src, f.alias)

\* A model validated against the mapping src: every field is validated, and
\* with extra = forbid every undeclared key is an error of its own.
ValidateModel(in, fields, forbid, src, prefix) ==
    LET res == [i \in DOMAIN fields |->
                   ValidateField(fields[i], Extract(in, src, fields[i]))]
        declared == {fields[i].alias : i \in DOMAIN fields}
        extra == IF forbid THEN DOMAIN src \ declared ELSE {}
    IN  [value |-> Obj([n \in {fields[i].name : i \in DOMAIN fields} |->
                          res[CHOOSE i \in DOMAIN fields : fields[i].name = n].value]),
         errors |-> {<<prefix \o <<fields[i].name>>, res[i].kind>> :
                        i \in {j \in DOMAIN fields : ~res[j].ok}}
                    \cup {<<prefix \o <<k>>, "extra_forbidden">> : k \in extra}]

NoErrors == {}

BindScalar(p, r) ==
    LET res == ValidateField(p.field, Extract(p.in, r[p.in], p.field))
    IN  [value |-> res.value,
         errors |-> IF res.ok THEN NoErrors ELSE {<< <<p.in, p.name>>, res.kind >>}]

BindBodyModel(p, r) ==
    LET b == IF p.embed /\ r.body.t = "obj" THEN Get(r.body.o, p.name) ELSE r.body
        prefix == IF p.embed THEN <<"body", p.name>> ELSE <<"body">>
    IN  IF b.t = "absent" \/ (b.t = "null" /\ ~p.required)
        THEN [value |-> Null,
              errors |-> IF p.required THEN {<<prefix, "missing">>} ELSE NoErrors]
        ELSE IF b.t = "obj"
        THEN ValidateModel("body", p.fields, p.forbid, b.o, prefix)
        ELSE [value |-> Null, errors |-> {<<prefix, "model_attributes_type">>}]

BindParam(p, r) ==
    IF p.kind = "scalar" THEN BindScalar(p, r)
    ELSE IF p.in = "body" THEN BindBodyModel(p, r)
    ELSE ValidateModel(p.in, p.fields, p.forbid, r[p.in], <<p.in>>)

\* Variant: binding stops at the first parameter that fails.
BindRequest_failfast(r) ==
    LET ps == Params(r.ep)
        res == [i \in DOMAIN ps |-> BindParam(ps[i], r)]
        bad == {i \in DOMAIN ps : res[i].errors # NoErrors}
    IN  [values |-> [n \in {ps[i].name : i \in DOMAIN ps} |->
                        res[CHOOSE i \in DOMAIN ps : ps[i].name = n].value],
         errors |-> IF bad = {} THEN NoErrors
                    ELSE res[CHOOSE i \in bad : \A j \in bad : i <= j].errors]

\* Every parameter of the signature is bound; the errors of all of them are
\* collected.
BindRequest(r) ==
    LET ps == Params(r.ep)
        res == [i \in DOMAIN ps |-> BindParam(ps[i], r)]
    IN  [values |-> [n \in {ps[i].name : i \in DOMAIN ps} |->
                        res[CHOOSE i \in DOMAIN ps : ps[i].name = n].value],
         errors |-> UNION {res[i].errors : i \in DOMAIN ps}]

(***************************************************************************)
(* The handlers.  Each takes its bound parameters and gives the value it   *)
(* returns; Python's None is Null.                                         *)
(***************************************************************************)
\* Truth value of `if x:` for an optional string or an optional model.
Truthy(x) ==
    CASE x.t = "null" -> FALSE
      [] x.t = "str" -> x.s # <<>>
      [] OTHER -> TRUE

IsNone(x) == x.t = "null"

\* Item.dict()
Dict(item) == item.o

\* The Japanese greeting of the source is written in ASCII.
read_root == [message |-> "konnichiwa, FastAPI!"]

read_item(item_id, q) == [item_id |-> item_id, q |-> q]

\* Variant: the lenet test falls through to the last message.
get_model_fallthrough(model_name) ==
    IF model_name = Str(S_alexnet)
    THEN [model_name |-> model_name, message |-> "Deep Learning FTW!"]
    ELSE [model_name |-> model_name, message |-> "Have some residuals"]

get_model(model_name) ==
    IF model_name = Str(S_alexnet)
    THEN [model_name |-> model_name, message |-> "Deep Learning FTW!"]
    ELSE IF model_name.s = S_lenet
    THEN [model_name |-> model_name, message |-> "LeCNN all the images"]
    ELSE [model_name |-> model_name, message |-> "Have some residuals"]

read_user_item(item_id, needy, skip, limit) ==
    [item_id |-> item_id, needy |-> needy, skip |-> skip, limit |-> limit]

\* Variant: `if item.tax:` in place of `if item.tax is not None:`.
create_item_truthy(item) ==
    LET item_dict == Dict(item)
    IN  IF ~IsNone(item.o.tax) /\ item.o.tax.n # 0
        THEN ("price_with_tax" :> Num(item.o.price.n + item.o.tax.n)) @@ item_dict
        ELSE item_dict

create_item(item) ==
    LET item_dict == Dict(item)
    IN  IF ~IsNone(item.o.tax)
        THEN ("price_with_tax" :> Num(item.o.price.n + item.o.tax.n)) @@ item_dict
        ELSE item_dict

\* Variant: the body of create_item pasted into update_item.
update_item_with_tax(item_id, item) ==
    LET item_dict == Dict(item) @@ ("item_id" :> item_id)
    IN  IF ~IsNone(item.o.tax)
        THEN ("price_with_tax" :> Num(item.o.price.n + item.o.tax.n)) @@ item_dict
        ELSE item_dict

\* {"item_id": item_id, **item.dict()}: a key of the item would win.
update_item(item_id, item) == Dict(item) @@ ("item_id" :> item_id)

ItemsResults == [items |-> <<[item_id |-> "Foo"], [item_id |-> "Bar"]>>]

\* Variant: `return results`.
read_items_returning(q) ==
    IF Truthy(q) THEN ("q" :> q) @@ ItemsResults ELSE ItemsResults

\* results is built and dropped: the function ends in a bare return.
read_items(q) ==
    LET results == IF Truthy(q) THEN ("q" :> q) @@ ItemsResults ELSE ItemsResults
    IN  Null

read_regex_items(q) ==
    LET results == IF Truthy(q) THEN ("q" :> q) @@ ItemsResults ELSE ItemsResults
    IN  Null

read_query_items(filter_query) == filter_query

user_data(user_id, q, item) ==
    LET results == "user_id" :> user_id
        results2 == IF Truthy(q) THEN ("q" :> q) @@ results ELSE results
    IN  IF Truthy(item) THEN ("item" :> item) @@ results2 ELSE results2

read_cookie_items(cookies) == cookies

read_header_items(user_agent) == "User-Agent" :> user_agent

statusCode(name) == [name |-> name]

login(data) == data

create_file(file) == [file_size |-> Num(Len(file.c))]

create_upload_file(file) == [filename |-> Str(file.filename)]

\* HTMLResponse(content=content)
main == [html |-> "<body><form action=/files/><form action=/uploadfiles/></body>"]

(***************************************************************************)
(* The serving loop: a request is received into a free slot, bound, then   *)
(* either rejected or handed to its handler, and its context is released   *)
(* once the response is out.                                               *)
(***************************************************************************)
MaxInFlight == 2

Slots == 1..MaxInFlight

NoRequest == [ep |-> "none"]
NoResponse == [status |-> 0]

Req(ep, path, query, header, cookie, form, body) ==
    [ep |-> ep, path |-> path, query |-> query, header |-> header,
     cookie |-> cookie, form |-> form, body |-> body]

Init ==
    /\ stage = [s \in Slots |-> "idle"]
    /\ request = [s \in Slots |-> NoRequest]
    /\ params = [s \in Slots |-> EmptyMap]
    /\ errors = [s \in Slots |-> NoErrors]
    /\ response = [s \in Slots |-> NoResponse]
    /\ invoked = [s \in Slots |-> "none"]

Receive(s, r) ==
    /\ stage[s] = "idle"
    /\ stage' = [stage EXCEPT ![s] = "received"]
    /\ request' = [request EXCEPT ![s] = r]
    /\ UNCHANGED <<params, errors, response, invoked>>

\* solve_dependencies: values and errors of the request of slot s.
Bind(s) ==
    /\ stage[s] = "received"
    /\ stage' = [stage EXCEPT ![s] = "bound"]
    /\ params' = [params EXCEPT ![s] = BindRequest(request[s]).values]
    /\ errors' = [errors EXCEPT ![s] = BindRequest(request[s]).errors]
    /\ UNCHANGED <<request, response, invoked>>

\* Any error: RequestValidationError, answered 422 with the error list.
Reject(s) ==
    /\ stage[s] = "bound"
    /\ errors[s] # NoErrors
    /\ stage' = [stage EXCEPT ![s] = "responded"]
    /\ response' = [response EXCEPT ![s] =
                       [status |-> 422, body |-> [detail |-> errors[s]]]]
    /\ UNCHANGED <<request, params, errors, invoked>>

\* No error: the route's handler may run on the bound values.
Routed(s, ep) ==
    /\ stage[s] = "bound"
    /\ errors[s] = NoErrors
    /\ request[s].ep = ep

\* The handler's return value is sent with the route's status code.
Respond(s, result) ==
    /\ stage' = [stage EXCEPT ![s] = "responded"]
    /\ invoked' = [invoked EXCEPT ![s] = request[s].ep]
    /\ response' = [response EXCEPT ![s] =
                       [status |-> StatusCode(request[s].ep), body |-> result]]
    /\ UNCHANGED <<request, params, errors>>

Call_read_root(s) ==
    /\ Routed(s, "read_root")
    /\ Respond(s, read_root)

Call_read_item(s) ==
    /\ Routed(s, "read_item")
    /\ Respond(s, read_item(params[s].item_id, params[s].q))

Call_get_model(s) ==
    /\ Routed(s, "get_model")
    /\ Respond(s, get_model(params[s].model_name))

Call_read_user_item(s) ==
    /\ Routed(s, "read_user_item")
    /\ Respond(s, read_user_item(params[s].item_id, params[s].needy,
                                  params[s].skip, params[s].limit))

Call_create_item(s) ==
    /\ Routed(s, "create_item")
    /\ Respond(s, create_item(params[s].item))

Call_update_item(s) ==
    /\ Routed(s, "update_item")
    /\ Respond(s, update_item(params[s].item_id, params[s].item))

Call_read_items(s) ==
    /\ Routed(s, "read_items")
    /\ Respond(s, read_items(params[s].q))

Call_read_regex_items(s) ==
    /\ Routed(s, "read_regex_items")
    /\ Respond(s, read_regex_items(params[s].q))

Call_read_query_items(s) ==
    /\ Routed(s, "read_query_items")
    /\ Respond(s, read_query_items(params[s].filter_query))

\* Variant: results is a module-level dict, so a q put into it while
\* serving one request is still in it when another is answered.
Call_user_data_shared(s) ==
    /\ Routed(s, "user_data")
    /\ \E t \in Slots :
          /\ request[t].ep = "user_data"
          /\ stage[t] \in {"bound", "responded"}
          /\ errors[t] = NoErrors
          /\ Respond(s, user_data(params[s].user_id,
                                  IF Truthy(params[t].q) THEN params[t].q
                                  ELSE params[s].q,
                                  params[s].item))

Call_user_data(s) ==
    /\ Routed(s, "user_data")
    /\ Respond(s, user_data(params[s].user_id, params[s].q, params[s].item))

Call_read_cookie_items(s) ==
    /\ Routed(s, "read_cookie_items")
    /\ Respond(s, read_cookie_items(params[s].cookies))

Call_read_header_items(s) ==
    /\ Routed(s, "read_header_items")
    /\ Respond(s, read_header_items(params[s].user_agent))

Call_statusCode(s) ==
    /\ Routed(s, "statusCode")
    /\ Respond(s, statusCode(params[s].name))

Call_login(s) ==
    /\ Routed(s, "login")
    /\ Respond(s, login(params[s].data))

Call_create_file(s) ==
    /\ Routed(s, "create_file")
    /\ Respond(s, create_file(params[s].file))

Call_create_upload_file(s) ==
    /\ Routed(s, "create_upload_file")
    /\ Respond(s, create_upload_file(params[s].file))

Call_main(s) ==
    /\ Routed(s, "main")
    /\ Respond(s, main)

\* The request context and the bound values are dropped with the response.
Release(s) ==
    /\ stage[s] = "responded"
    /\ stage' = [stage EXCEPT ![s] = "idle"]
    /\ request' = [request EXCEPT ![s] = NoRequest]
    /\ params' = [params EXCEPT ![s] = EmptyMap]
    /\ errors' = [errors EXCEPT ![s] = NoErrors]
    /\ response' = [response EXCEPT ![s] = NoResponse]
    /\ invoked' = [invoked EXCEPT ![s] = "none"]

Serve(s) ==
    \/ Bind(s)
    \/ Reject(s)
    \/ Call_read_root(s)
    \/ Call_read_item(s)
    \/ Call_get_model(s)
    \/ Call_read_user_item(s)
    \/ Call_create_item(s)
    \/ Call_update_item(s)
    \/ Call_read_items(s)
    \/ Call_read_regex_items(s)
    \/ Call_read_query_items(s)
    \/ Call_user_data(s)
    \/ Call_read_cookie_items(s)
    \/ Call_read_header_items(s)
    \/ Call_statusCode(s)
    \/ Call_login(s)
    \/ Call_create_file(s)
    \/ Call_create_upload_file(s)
    \/ Call_main(s)
    \/ Release(s)

(***************************************************************************)
(* The requests served.  Each field of a request is drawn from a small set *)
(* of raw values holding a valid one and one for each way of failing.      *)
(***************************************************************************)
S_a == <<"a">>
S_5 == <<"5">>
S_abc == <<"a", "b", "c">>
S_foo == <<"f", "o", "o">>
S_true == <<"T", "r", "u", "e">>

NoQuery == EmptyMap
NoBody == Absent

Simple(ep, path, query) == Req(ep, path, query, EmptyMap, EmptyMap, EmptyMap, NoBody)

WithBody(ep, path, query, body) ==
    Req(ep, path, query, EmptyMap, EmptyMap, EmptyMap, body)

OptionalQ == {Absent, Str(<<>>), Str(S_foo)}

ItemBodies ==
    {Obj(MkMap(<< <<"name", n>>, <<"description", d>>, <<"price", p>>,
                  <<"tax", t>> >>)) :
        n \in {Absent, Str(S_a), Num(5)},
        d \in {Absent, Null, Str(S_foo), Str(Rep("x", DescriptionMaxLength)),
               Str(Rep("x", DescriptionMaxLength + 1))},
        p \in {Absent, Num(10), Str(S_5), Str(S_abc)},
        t \in {Absent, Null, Num(0), Num(2), Str(S_abc)}}

SomeItemBodies ==
    {Obj(MkMap(<< <<"name", Str(S_a)>>, <<"price", p>>, <<"tax", t>> >>)) :
        p \in {Absent, Num(10)}, t \in {Absent, Num(2)}}

Requests_read_root ==
    {Simple("read_root", EmptyMap, MkMap(<< <<"x", x>> >>)) : x \in {Absent, Str(S_a)}}

Requests_read_item ==
    {Simple("read_item", MkMap(<< <<"item_id", i>> >>), MkMap(<< <<"q", q>> >>)) :
        i \in {Str(S_5), Str(<<"-", "3">>), Str(S_abc)}, q \in OptionalQ}

Requests_get_model ==
    {Simple("get_model", MkMap(<< <<"model_name", Str(m)>> >>), NoQuery) :
        m \in ModelName \cup {<<"A", "l", "e", "x", "N", "e", "t">>,
                               <<"L", "E", "N", "E", "T">>, <<"v", "g", "g">>}}

Requests_read_user_item ==
    {Simple("read_user_item", MkMap(<< <<"item_id", Str(S_5)>> >>),
            MkMap(<< <<"needy", n>>, <<"skip", k>>, <<"limit", l>> >>)) :
        n \in {Absent, Str(S_foo)},
        k \in {Absent, Str(<<"7">>), Str(S_abc)},
        l \in {Absent, Str(<<"3">>), Str(S_abc)}}

Requests_create_item ==
    {WithBody("create_item", EmptyMap, NoQuery, b) : b \in ItemBodies \cup {NoBody}}

Requests_update_item ==
    {WithBody("update_item", MkMap(<< <<"item_id", i>> >>), NoQuery, b) :
        i \in {Str(S_5), Str(S_abc)}, b \in ItemBodies \cup {NoBody}}

Requests_read_items ==
    {Simple("read_items", EmptyMap, MkMap(<< <<"q", q>> >>)) :
        q \in OptionalQ \cup {Str(Rep("x", ItemsQMaxLength)),
                              Str(Rep("x", ItemsQMaxLength + 1))}}

Requests_read_regex_items ==
    {Simple("read_regex_items", EmptyMap, MkMap(<< <<"q", q>> >>)) :
        q \in OptionalQ \cup {Str(S_fixedquery), Str(<<"a", "b">>),
                              Str(Rep("x", RegexQMaxLength + 1))}}

Requests_read_query_items ==
    {Simple("read_query_items", EmptyMap,
            MkMap(<< <<"limit", l>>, <<"offset", o>>, <<"order_by", b>>,
                     <<"tags", t>>, <<"page", x>> >>)) :
        l \in {Absent, Str(<<"0">>), Str(<<"1">>), Str(<<"1", "0", "0">>),
               Str(<<"1", "0", "1">>), Str(S_abc)},
        o \in {Absent, Str(<<"-", "1">>), Str(<<"0">>), Str(S_5)},
        b \in {Absent, Str(S_created_at), Str(S_updated_at), Str(S_foo)},
        t \in {Absent, Lst(<<S_a>>), Lst(<<S_a, S_foo>>)},
        x \in {Absent, Str(<<"2">>)}}

Requests_user_data ==
    {WithBody("user_data", MkMap(<< <<"user_id", u>> >>),
              MkMap(<< <<"q", q>> >>), b) :
        u \in {Str(<<"0">>), Str(<<"1", "0", "0", "0">>), Str(<<"1", "0", "0", "1">>),
               Str(<<"-", "1">>), Str(S_abc)},
        q \in OptionalQ,
        b \in {NoBody, Obj(EmptyMap), Obj("item" :> Null)}
              \cup {Obj("item" :> i) : i \in SomeItemBodies}}

Requests_read_cookie_items ==
    {Req("read_cookie_items", EmptyMap, NoQuery, EmptyMap,
         MkMap(<< <<"session_id", c>>, <<"fatebook_tracker", f>>, <<"theme", x>> >>),
         EmptyMap, NoBody) :
        c \in {Absent, Str(S_abc)}, f \in {Absent, Str(S_foo)},
        x \in {Absent, Str(S_a)}}

Requests_read_header_items ==
    {Req("read_header_items", EmptyMap, NoQuery,
         MkMap(<< <<"host", h>>, <<"save-data", d>>, <<"x-tag", t>>,
                  <<"accept", x>> >>),
         EmptyMap, EmptyMap, NoBody) :
        h \in {Absent, Str(S_foo)},
        d \in {Absent, Str(S_true), Str(<<"0">>), Str(S_abc)},
        t \in {Absent, Lst(<<S_a>>)},
        x \in {Absent, Str(S_a)}}

Requests_statusCode ==
    {Simple("statusCode", EmptyMap, MkMap(<< <<"name", n>>, <<"x", x>> >>)) :
        n \in {Absent, Str(S_foo)}, x \in {Absent, Str(S_a)}}

Requests_login ==
    {Req("login", EmptyMap, NoQuery, EmptyMap, EmptyMap,
         MkMap(<< <<"username", u>>, <<"password", w>>, <<"remember", x>> >>),
         NoBody) :
        u \in {Absent, Str(S_foo), FilePart(S_a, <<1>>)}, w \in {Absent, Str(S_abc)},
        x \in {Absent, Str(S_a)}}

Requests_create_file ==
    {Req("create_file", EmptyMap, NoQuery, EmptyMap, EmptyMap,
         MkMap(<< <<"file", f>> >>), NoBody) :
        f \in {Absent, Str(S_foo), FilePart(S_a, <<>>), FilePart(S_a, <<1, 2, 3>>)}}

Requests_create_upload_file ==
    {Req("create_upload_file", EmptyMap, NoQuery, EmptyMap, EmptyMap,
         MkMap(<< <<"file", f>> >>), NoBody) :
        f \in {Absent, Str(S_foo), FilePart(S_foo, <<1>>)}}

Requests_main == {Simple("main", EmptyMap, NoQuery)}

Requests ==
    Requests_read_root \cup Requests_read_item \cup Requests_get_model
    \cup Requests_read_user_item \cup Requests_create_item
    \cup Requests_update_item \cup Requests_read_items
    \cup Requests_read_regex_items \cup Requests_read_query_items
    \cup Requests_user_data \cup Requests_read_cookie_items
    \cup Requests_read_header_items \cup Requests_statusCode
    \cup Requests_login \cup Requests_create_file
    \cup Requests_create_upload_file \cup Requests_main

(***************************************************************************)
(* Spec: one request at a time, over all the requests above.               *)
(***************************************************************************)
Next ==
    \/ \E r \in Requests : Receive(1, r)
    \/ Serve(1)

Spec == Init /\ [][Next]_vars

(***************************************************************************)
(* ConcSpec: up to MaxInFlight requests in flight, their steps interleaved *)
(* in any order, over accepted requests for every route and a few rejected *)
(* ones.                                                                   *)
(***************************************************************************)
ValidItem == Obj(MkMap(<< <<"name", Str(S_a)>>, <<"price", Num(10)>>,
                          <<"tax", Num(2)>> >>))

ConcAccepted ==
    {Simple("read_root", EmptyMap, NoQuery),
     Simple("read_item", "item_id" :> Str(S_5), "q" :> Str(S_foo)),
     Simple("get_model", "model_name" :> Str(S_lenet), NoQuery),
     Simple("read_user_item", "item_id" :> Str(S_5), "needy" :> Str(S_foo)),
     WithBody("create_item", EmptyMap, NoQuery, ValidItem),
     WithBody("update_item", "item_id" :> Str(S_5), NoQuery, ValidItem),
     Simple("read_items", EmptyMap, "q" :> Str(S_foo)),
     Simple("read_regex_items", EmptyMap, "q" :> Str(S_fixedquery)),
     Simple("read_query_items", EmptyMap, "limit" :> Str(S_5)),
     WithBody("user_data", "user_id" :> Str(S_5), "q" :> Str(S_foo),
              Obj("item" :> ValidItem)),
     WithBody("user_data", "user_id" :> Str(S_5), NoQuery, NoBody),
     Req("read_cookie_items", EmptyMap, NoQuery, EmptyMap,
         "session_id" :> Str(S_abc), EmptyMap, NoBody),
     Req("read_header_items", EmptyMap, NoQuery,
         ("host" :> Str(S_foo)) @@ ("save-data" :> Str(S_true)), EmptyMap,
         EmptyMap, NoBody),
     Simple("statusCode", EmptyMap, "name" :> Str(S_foo)),
     Req("login", EmptyMap, NoQuery, EmptyMap, EmptyMap,
         ("username" :> Str(S_foo)) @@ ("password" :> Str(S_abc)), NoBody),
     Req("create_file", EmptyMap, NoQuery, EmptyMap, EmptyMap,
         "file" :> FilePart(S_a, <<1, 2, 3>>), NoBody),
     Req("create_upload_file", EmptyMap, NoQuery, EmptyMap, EmptyMap,
         "file" :> FilePart(S_foo, <<1>>), NoBody),
     Simple("main", EmptyMap, NoQuery)}

ConcRejected ==
    {Simple("read_item", "item_id" :> Str(S_abc), NoQuery),
     Simple("read_user_item", "item_id" :> Str(S_5), "skip" :> Str(S_abc)),
     WithBody("update_item", "item_id" :> Str(S_abc), NoQuery,
              Obj("name" :> Str(S_a))),
     Simple("read_query_items", EmptyMap,
            ("limit" :> Str(<<"1", "0", "1">>)) @@ ("page" :> Str(S_5)))}

ConcRequests == ConcAccepted \cup ConcRejected

ConcNext ==
    \/ \E s \in Slots : \E r \in ConcRequests : Receive(s, r)
    \/ \E s \in Slots : Serve(s)

ConcSpec == Init /\ [][ConcNext]_vars

(***************************************************************************)
(* Properties.  What a request violates is stated here from its raw        *)
(* fields alone: every constraint of every declared field is evaluated on  *)
(* its own, with no short cut and no collection.                           *)
(***************************************************************************)
Bound(s) == stage[s] \in {"bound", "responded"}
Responded(s) == stage[s] = "responded"
Served(s, ep) == Responded(s) /\ request[s].ep = ep

\* The constraints of field f that the raw value violates.
Violations(f, raw) ==
    IF raw.t = "absent" THEN (IF f.required THEN {"required"} ELSE {})
    ELSE IF raw.t = "null" THEN (IF f.nullable THEN {} ELSE {"type"})
    ELSE IF ~Coerce(f, raw).ok THEN {"type"}
    ELSE {f.cons[i][1] : i \in {j \in DOMAIN f.cons :
                                   Violated(f.cons[j], Coerce(f, raw).value)}}

FieldViolations(in, fields, src, prefix) ==
    UNION {{<<prefix \o <<fields[i].name>>, c>> :
               c \in Violations(fields[i], Extract(in, src, fields[i]))} :
           i \in DOMAIN fields}

ParamViolations(p, r) ==
    IF p.kind = "scalar"
    THEN {<< <<p.in, p.name>>, c >> :
             c \in Violations(p.field, Extract(p.in, r[p.in], p.field))}
    ELSE IF p.in # "body"
    THEN FieldViolations(p.in, p.fields, r[p.in], <<p.in>>)
    ELSE LET b == IF p.embed /\ r.body.t = "obj" THEN Get(r.body.o, p.name)
                  ELSE r.body
             prefix == IF p.embed THEN <<"body", p.name>> ELSE <<"body">>
         IN  IF b.t = "obj" THEN FieldViolations("body", p.fields, b.o, prefix)
             ELSE IF p.required THEN {<<prefix, "required">>}
             ELSE {}

\* The pairs <<field path, constraint>> request r violates.
DeclaredViolations(r) ==
    UNION {ParamViolations(Params(r.ep)[i], r) : i \in DOMAIN Params(r.ep)}

FailingFields(r) == {v[1] : v \in DeclaredViolations(r)}

\* The undeclared keys r carries where a closed schema reads.
Undeclared(r) ==
    UNION {LET p == Params(r.ep)[i]
           IN  IF p.kind = "model" /\ p.forbid /\ p.in # "body"
               THEN {<<p.in, k>> : k \in DOMAIN r[p.in] \
                                     {p.fields[j].alias : j \in DOMAIN p.fields}}
               ELSE {} :
           i \in DOMAIN Params(r.ep)}

Valid(r) == DeclaredViolations(r) = {} /\ Undeclared(r) = {}

ErrorPaths(s) == {e[1] : e \in errors[s]}

\* The number a raw JSON number or numeral stands for.
RawNum(x) == IF x.t = "num" THEN x.n ELSE StrToInt(x.s).v

OrNull(x) == IF x.t = "absent" THEN Null ELSE x

(***************************************************************************)
(* C1: GET /models/{model_name} answers alexnet, lenet and resnet with     *)
(* their three messages; any other value, also one differing only in case, *)
(* is rejected as a validation failure and get_model is never invoked.     *)
(***************************************************************************)
C1_ModelMessages ==
    \A s \in Slots :
        request[s].ep = "get_model" =>
            LET m == request[s].path.model_name.s
                answer(msg) == [status |-> 200,
                                body |-> [model_name |-> Str(m), message |-> msg]]
            IN  /\ invoked[s] = "get_model" => m \in {S_alexnet, S_lenet, S_resnet}
                /\ Responded(s) =>
                      CASE m = S_alexnet -> response[s] = answer("Deep Learning FTW!")
                        [] m = S_lenet -> response[s] = answer("LeCNN all the images")
                        [] m = S_resnet -> response[s] = answer("Have some residuals")
                        [] OTHER -> /\ response[s].status = 422
                                    /\ invoked[s] = "none"

C1_Witness ==
    \E s \in Slots :
        /\ Served(s, "get_model")
        /\ request[s].path.model_name.s = S_lenet
        /\ invoked[s] = "get_model"

(***************************************************************************)
(* C2: POST /items/ with a valid body echoes name, description, price and  *)
(* tax, and carries price_with_tax = price + tax exactly when tax is       *)
(* present and not null, tax = 0 included.                                 *)
(***************************************************************************)
C2_CreateItemEcho ==
    \A s \in Slots :
        Served(s, "create_item") /\ Valid(request[s]) =>
            LET raw == request[s].body.o
                out == response[s].body
                tax == Get(raw, "tax")
            IN  /\ response[s].status = 200
                /\ out.name = raw.name
                /\ out.description = OrNull(Get(raw, "description"))
                /\ out.price = Num(RawNum(raw.price))
                /\ out.tax = OrNull(tax)
                /\ "price_with_tax" \in DOMAIN out <=> tax.t \notin {"absent", "null"}
                /\ tax.t \notin {"absent", "null"} =>
                      out.price_with_tax = Num(RawNum(raw.price) + RawNum(tax))

C2_Witness ==
    \E s \in Slots :
        /\ Served(s, "create_item")
        /\ Valid(request[s])
        /\ Get(request[s].body.o, "tax") = Num(0)
        /\ response[s].body.price_with_tax = response[s].body.price

(***************************************************************************)
(* C3: GET /query-items/ accepts limit exactly when it is an integer in    *)
(* 1..100, offset exactly when it is an integer >= 0, order_by only when   *)
(* it is created_at or updated_at; an omitted parameter comes back as its  *)
(* default: limit 100, offset 0, order_by created_at, tags [].             *)
(***************************************************************************)
C3_LimitOk(q) ==
    "limit" \in DOMAIN q =>
        StrToInt(q.limit.s).ok /\ StrToInt(q.limit.s).v \in 1..100

C3_OffsetOk(q) ==
    "offset" \in DOMAIN q =>
        StrToInt(q.offset.s).ok /\ StrToInt(q.offset.s).v >= 0

C3_OrderByOk(q) ==
    "order_by" \in DOMAIN q => q.order_by.s \in {S_created_at, S_updated_at}

C3_QueryItems ==
    \A s \in Slots :
        Served(s, "read_query_items") =>
            LET q == request[s].query
                out == response[s].body.o
            IN  /\ response[s].status = 200 <=>
                      /\ C3_LimitOk(q) /\ C3_OffsetOk(q) /\ C3_OrderByOk(q)
                      /\ DOMAIN q \subseteq {"limit", "offset", "order_by", "tags"}
                /\ response[s].status = 200 =>
                      /\ out.limit = IF "limit" \in DOMAIN q
                                     THEN Num(StrToInt(q.limit.s).v) ELSE Num(100)
                      /\ out.offset = IF "offset" \in DOMAIN q
                                      THEN Num(StrToInt(q.offset.s).v) ELSE Num(0)
                      /\ out.order_by = IF "order_by" \in DOMAIN q
                                        THEN q.order_by ELSE Str(S_created_at)
                      /\ out.tags = IF "tags" \in DOMAIN q THEN q.tags ELSE Lst(<<>>)

C3_Witness ==
    \E s \in Slots :
        /\ Served(s, "read_query_items")
        /\ DOMAIN request[s].query = {"limit"}
        /\ request[s].query.limit.s = <<"1", "0", "0">>
        /\ response[s].status = 200
        /\ response[s].body.o.offset = Num(0)

(***************************************************************************)
(* C4: GET /query-items/ and POST /login/ reject every request carrying an *)
(* undeclared field in the query string, resp. the form, even when every   *)
(* declared field is valid, and the handler is not invoked for it.         *)
(***************************************************************************)
C4_ClosedSchemas ==
    \A s \in Slots :
        LET r == request[s]
            extra == IF r.ep = "read_query_items"
                     THEN DOMAIN r.query \ {"limit", "offset", "order_by", "tags"}
                     ELSE IF r.ep = "login"
                     THEN DOMAIN r.form \ {"username", "password"}
                     ELSE {}
        IN  extra # {} =>
                /\ invoked[s] = "none"
                /\ Bound(s) => errors[s] # {}
                /\ Responded(s) => response[s].status = 422

C4_Witness ==
    \E s \in Slots :
        /\ Served(s, "login")
        /\ DeclaredViolations(request[s]) = {}
        /\ "remember" \in DOMAIN request[s].form
        /\ response[s].status = 422

(***************************************************************************)
(* C5: a request that violates exactly one constraint of exactly one       *)
(* declared field, all else valid, fails to bind, and its error list has   *)
(* exactly one entry, which names that field.                              *)
(***************************************************************************)
C5_SingleViolation ==
    \A s \in Slots :
        /\ Bound(s)
        /\ Cardinality(DeclaredViolations(request[s])) = 1
        /\ Undeclared(request[s]) = {}
        => /\ Cardinality(errors[s]) = 1
           /\ ErrorPaths(s) = FailingFields(request[s])
           /\ invoked[s] = "none"
           /\ Responded(s) => response[s].status = 422

C5_Witness ==
    \E s \in Slots :
        /\ Served(s, "read_regex_items")
        /\ DeclaredViolations(request[s]) = {<< <<"query", "q">>, "pattern" >>}
        /\ Cardinality(errors[s]) = 1

(***************************************************************************)
(* C6: binding is all-or-nothing and fail-slow: a handler is invoked only  *)
(* when every declared field passed, on a complete parameter set; and the  *)
(* error list holds one entry for each failing field, not only the first.  *)
(***************************************************************************)
C6_AllOrNothing ==
    \A s \in Slots :
        /\ invoked[s] # "none" =>
              /\ Valid(request[s])
              /\ DOMAIN params[s] =
                    {Params(request[s].ep)[i].name : i \in DOMAIN Params(request[s].ep)}
        /\ Bound(s) =>
              /\ ErrorPaths(s) = FailingFields(request[s]) \cup Undeclared(request[s])
              /\ Cardinality(errors[s]) = Cardinality(ErrorPaths(s))

C6_Witness ==
    \E s \in Slots :
        /\ Served(s, "update_item")
        /\ {<<"path", "item_id">>, <<"body", "price">>} \subseteq ErrorPaths(s)
        /\ invoked[s] = "none"

(***************************************************************************)
(* C7: a successfully bound request to POST /status-code/ is answered 201, *)
(* one to any other endpoint 200, and a request failing validation 422     *)
(* with the error list.                                                    *)
(***************************************************************************)
C7_StatusCodes ==
    \A s \in Slots :
        Responded(s) =>
            IF Valid(request[s])
            THEN /\ invoked[s] = request[s].ep
                 /\ response[s].status =
                       IF request[s].ep = "statusCode" THEN 201 ELSE 200
            ELSE /\ response[s].status = 422
                 /\ response[s].body.detail = errors[s]
                 /\ errors[s] # {}

C7_Witness ==
    \E s \in Slots :
        /\ Served(s, "statusCode")
        /\ Valid(request[s])
        /\ response[s].status = 201

(***************************************************************************)
(* C9: PUT /items/{item_id} returns item_id as the integer of the path     *)
(* value together with the body's name, description, price and tax (null   *)
(* when absent), and never price_with_tax.                                 *)
(***************************************************************************)
C9_UpdateItem ==
    \A s \in Slots :
        Served(s, "update_item") /\ Valid(request[s]) =>
            LET raw == request[s].body.o
                out == response[s].body
            IN  /\ response[s].status = 200
                /\ DOMAIN out = {"item_id", "name", "description", "price", "tax"}
                /\ out.item_id = Num(StrToInt(request[s].path.item_id.s).v)
                /\ out.name = raw.name
                /\ out.description = OrNull(Get(raw, "description"))
                /\ out.price = Num(RawNum(raw.price))
                /\ out.tax = OrNull(Get(raw, "tax"))

C9_Witness ==
    \E s \in Slots :
        /\ Served(s, "update_item")
        /\ Valid(request[s])
        /\ Get(request[s].body.o, "tax") = Num(2)
        /\ response[s].body.item_id = Num(5)

(***************************************************************************)
(* C10: GET /items/ and GET /regex-items/ answer every accepted request    *)
(* with null, whatever q is: the results object never leaves the handler.  *)
(***************************************************************************)
C10_NullResult ==
    \A s \in Slots :
        /\ Responded(s)
        /\ request[s].ep \in {"read_items", "read_regex_items"}
        /\ Valid(request[s])
        => response[s] = [status |-> 200, body |-> Null]

C10_Witness ==
    \E s \in Slots :
        /\ Served(s, "read_items")
        /\ Get(request[s].query, "q") = Str(S_foo)
        /\ response[s].status = 200

(***************************************************************************)
(* C8: there is no cross-request state: whatever else is in flight, the    *)
(* response to a request is the one it would get if it were the only       *)
(* request ever served; and no request, rejected or not, stops the         *)
(* service: a free slot takes a request, and a bound request is either     *)
(* rejected or routed to a handler.                                        *)
(***************************************************************************)
HandlerResult(ep, a) ==
    CASE ep = "read_root" -> read_root
      [] ep = "read_item" -> read_item(a.item_id, a.q)
      [] ep = "get_model" -> get_model(a.model_name)
      [] ep = "read_user_item" -> read_user_item(a.item_id, a.needy, a.skip, a.limit)
      [] ep = "create_item" -> create_item(a.item)
      [] ep = "update_item" -> update_item(a.item_id, a.item)
      [] ep = "read_items" -> read_items(a.q)
      [] ep = "read_regex_items" -> read_regex_items(a.q)
      [] ep = "read_query_items" -> read_query_items(a.filter_query)
      [] ep = "user_data" -> user_data(a.user_id, a.q, a.item)
      [] ep = "read_cookie_items" -> read_cookie_items(a.cookies)
      [] ep = "read_header_items" -> read_header_items(a.user_agent)
      [] ep = "statusCode" -> statusCode(a.name)
      [] ep = "login" -> login(a.data)
      [] ep = "create_file" -> create_file(a.file)
      [] ep = "create_upload_file" -> create_upload_file(a.file)
      [] ep = "main" -> main

\* The response to r when r is the only request ever served.
ServedAlone(r) ==
    LET b == BindRequest(r)
    IN  IF b.errors # {}
        THEN [status |-> 422, body |-> [detail |-> b.errors]]
        ELSE [status |-> StatusCode(r.ep), body |-> HandlerResult(r.ep, b.values)]

C8_NoCrossRequestState ==
    \A s \in Slots :
        /\ Responded(s) => response[s] = ServedAlone(request[s])
        /\ stage[s] = "idle" => \A r \in ConcRequests : ENABLED Receive(s, r)
        /\ stage[s] = "bound" =>
              errors[s] # {} \/ \E ep \in Endpoints : Routed(s, ep)

C8_Witness ==
    \E s, t \in Slots :
        /\ s # t
        /\ Responded(s) /\ response[s].status = 200
        /\ Responded(t) /\ response[t].status = 422

====
